---- MODULE Spec2Model ----
(***************************************************************************)
(* A model of PyForgee's build orchestration: tool selection               *)
(* (select_best_compiler / select_best_compressor), the compile stage      *)
(* (CompilerEngine.compile and its three backends), the compress stage     *)
(* (CompressionHandler.compress_executable, UPXCompressor.compress), the   *)
(* CLI pipeline (compile -> compress -> protect) and batch_compile.        *)
(*                                                                         *)
(* Each subsystem has its own specification; the variables of the other    *)
(* subsystems stay at their idle values.                                   *)
(***************************************************************************)
EXTENDS Integers, Sequences, FiniteSets, TLC

VARIABLES
    \* ---- tool selection (select_best_compiler / select_best_compressor)
    stage,                \* which scheduler is exercised: "compile" | "compress" | "idle"
    available_compilers,  \* CompilerEngine.available_compilers (keys)
    options,              \* CompilationOptions fields the scheduler reads
    available_compressors,\* CompressionHandler.available_compressors (keys)
    method,               \* CompressionOptions.method
    file_info,            \* CompressionBackend._get_file_info(file_path)
    selected,             \* what the selection returned ("pending" before it ran)
    \* ---- compile stage (CompilerEngine.compile, batch_compile)
    scripts,              \* the scripts of the batch, in input order (one for a single compile)
    source_exists,        \* os.path.exists(source_path), per script
    output_dir_ok,        \* whether os.makedirs(output_path, exist_ok=True) succeeds
    tasks,                \* one compile coroutine per script
    gathered,             \* batch_compile returned
    final_results,        \* what batch_compile returned
    temp_setup,           \* whose setup script <source dir>/temp_setup.py holds ("absent": no file)
    \* ---- compress stage (compress_executable, UPXCompressor.compress)
    cpc,                  \* where compress_executable is
    backup_original,      \* CompressionOptions.backup_original
    artifact,             \* content of the file at exe_path ("absent": no file)
    backup,               \* content of the file at <exe_path>.backup
    compressed_file,      \* whether <exe_path>.lzma / .br / .pfc was written
    pending,              \* the result UPXCompressor.compress is about to return
    cresult,              \* what compress_executable returned or raised
    \* ---- CLI pipeline (main_cli.compile: _compile_async)
    ppc,                  \* where _compile_async is
    output,               \* the --output option ("None" when not given)
    compress,             \* the --compress option
    protect,              \* the --protect option
    calls,                \* the stages invoked so far, in order
    \* ---- dependency analysis (DependencyAnalyzer.analyze_dependencies)
    apc,                  \* where analyze_dependencies is
    program,              \* the imports each local source file holds
    include_stdlib,       \* the include_stdlib argument
    trace,                \* how the subprocess of the dynamic pass ended
    static_deps,          \* what _static_analysis returned
    dynamic_deps,         \* what _dynamic_analysis returned
    classified,           \* AnalysisResult.dependencies
    circular,             \* AnalysisResult.circular_dependencies
    warnings,             \* AnalysisResult.warnings
    \* ---- protect stage (ProtectionManager.protect_code)
    xpc,                  \* where protect_code is
    level,                \* the level argument
    explicit_methods,     \* the methods keyword argument (<<>> when not given)
    available_protectors, \* ProtectionManager.available_protectors (keys)
    source_path,          \* the source_path argument
    methods,              \* options.methods after __post_init__
    next_method,          \* index of the loop over options.methods
    current_path,         \* current_path
    all_protected_files,  \* all_protected_files, in insertion order
    all_methods,          \* all_methods
    applied,              \* the backend calls made so far: method, input, output
    presult,              \* what protect_code returned
    \* ---- name rewriting (CustomObfuscator._obfuscate_file / _obfuscate_names)
    opc,                  \* where _obfuscate_file is
    source_code,          \* the identifier occurrences of the file read
    obfuscate_names,      \* options.obfuscate_names
    builtin_names,        \* NameObfuscator.builtin_names
    tree,                 \* the tree being transformed
    visited,              \* how many occurrences the transformer has visited
    name_map,             \* NameObfuscator.name_map
    written,              \* the occurrences of the .obfuscated file
    \* ---- scoring (get_score of the backends of the three stages)
    score_stage,          \* the stage whose backends are asked for a score
    protection_options,   \* the ProtectionOptions fields the protectors read
    crypto_available,     \* CRYPTO_AVAILABLE
    score_log,            \* the get_score calls made so far: backend, score
    \* ---- module information and size estimation (_get_module_info, _estimate_sizes)
    epc,                  \* "idle" | "start" | "classified" | "estimated"
    module_facts,         \* what the host knows of the module
    info,                 \* the module's DependencyInfo
    \* ---- batch compression (CompressionHandler.batch_compress)
    bpc,                  \* "idle" | "start" | "returned" | "raised"
    batch_files,          \* the files argument
    base_options,         \* the base_options argument
    batch_results,        \* what batch_compress returned
    \* ---- the static pass (DependencyAnalyzer._static_analysis)
    spc,                  \* "idle" | "start" | "running" | "returned"
    sources,              \* the imports of every local file
    unparsable,           \* the local files ast.parse rejects
    script_path,          \* the script_path argument
    deep,                 \* the deep argument
    analyzed_files,       \* analyzed_files
    parse_log,            \* the paths handed to ast.parse, in order
    call_stack,           \* the analyze_file calls in progress
    dependencies          \* dependencies

selVars == <<stage, available_compilers, options, available_compressors,
             method, file_info, selected>>

engVars == <<scripts, source_exists, output_dir_ok, tasks, gathered, final_results,
             temp_setup>>

cmpVars == <<cpc, backup_original, artifact, backup, compressed_file, pending, cresult>>

pipeVars == <<ppc, output, compress, protect, calls>>

anaVars == <<apc, program, include_stdlib, trace, static_deps, dynamic_deps,
             classified, circular, warnings>>

proVars == <<xpc, level, explicit_methods, available_protectors, source_path,
             methods, next_method, current_path, all_protected_files,
             all_methods, applied, presult>>

obfVars == <<opc, source_code, obfuscate_names, builtin_names, tree, visited, name_map, written>>

\* The subsystems the build pipeline does not touch.
scoVars == <<score_stage, protection_options, crypto_available, score_log>>

estVars == <<epc, module_facts, info>>

bcVars == <<bpc, batch_files, base_options, batch_results>>

staVars == <<spc, sources, unparsable, script_path, deep, analyzed_files, parse_log,
             call_stack, dependencies>>

tailVars == <<bcVars, staVars>>

auxVars == <<anaVars, proVars, obfVars, scoVars, estVars, tailVars>>

vars == <<selVars, engVars, cmpVars, pipeVars, auxVars>>

(***************************************************************************)
(* Registries.  Python dicts iterate in insertion order, so the order in   *)
(* which __init__ fills self.compilers / self.compressors is the order in  *)
(* which _detect_* fills the available_* dicts and in which max() sees the *)
(* candidates.                                                             *)
(***************************************************************************)
CompilerOrder == <<"pyinstaller", "nuitka", "cx_freeze">>

CompressorOrder == <<"upx", "lzma", "brotli", "custom">>

CompilerType == {"pyinstaller", "nuitka", "cx_freeze"}

CompressionMethod == {"upx", "lzma", "brotli", "gzip", "custom", "auto"}

Range(s) == {s[i] : i \in DOMAIN s}

\* Stage results: what a stage returned (kind "returned") or the exception
\* that left it (kind "raised").  compiler_used stands for method_used in a
\* CompressionResult.
NoPath == <<>>

PendingResult ==
    [kind |-> "pending", success |-> FALSE, output_path |-> NoPath,
     error_message |-> "", names |-> "None", compiler_used |-> "None"]

Success(path, compiler) ==
    [kind |-> "returned", success |-> TRUE, output_path |-> path,
     error_message |-> "None", names |-> "None", compiler_used |-> compiler]

Failure(message, compiler) ==
    [kind |-> "returned", success |-> FALSE, output_path |-> NoPath,
     error_message |-> message, names |-> "None", compiler_used |-> compiler]

\* A failure whose text is f"{message}: {path}".
FailureNaming(message, path) ==
    [kind |-> "returned", success |-> FALSE, output_path |-> NoPath,
     error_message |-> message, names |-> path, compiler_used |-> "None"]

Raised(message) ==
    [kind |-> "raised", success |-> FALSE, output_path |-> NoPath,
     error_message |-> message, names |-> "None", compiler_used |-> "None"]

Clamp(score) == IF score > 100 THEN 100 ELSE IF score < 0 THEN 0 ELSE score

(***************************************************************************)
(* Compile-stage scores: CompilerBackend.get_score of the three backends.  *)
(***************************************************************************)
PyInstallerScore(o) ==
    Clamp(70 + 15 - (IF o.optimize THEN 5 ELSE 0) + 10)

\* A Nuitka score that forgets the bonus for the obfuscation flags.
NuitkaScoreOptimizeOnly(o) ==
    Clamp(85 + (IF o.optimize THEN 10 ELSE 0) - 5)

NuitkaScore(o) ==
    Clamp(85 + (IF o.optimize THEN 10 ELSE 0)
             + (IF o.obfuscate \/ o.encrypt_bytecode THEN 5 ELSE 0) - 5)

CxFreezeScore(o) ==
    Clamp(60 + 5 - (IF o.obfuscate \/ o.encrypt_bytecode THEN 10 ELSE 0))

CompilerScore(c, o) ==
    CASE c = "pyinstaller" -> PyInstallerScore(o)
      [] c = "nuitka"      -> NuitkaScore(o)
      [] c = "cx_freeze"   -> CxFreezeScore(o)

(***************************************************************************)
(* Compress-stage scores.  f is the dict _get_file_info returns; when      *)
(* os.stat raises it is {} and every .get falls back to its default        *)
(* (type None, is_executable None, size 0, extension '').                  *)
(***************************************************************************)
KiB == 1024

MiB == 1048576

TextExtensions == {".txt", ".js", ".css", ".html", ".json", ".xml"}

UPXScore(f) ==
    Clamp(50 + (IF f.type = "pe_executable" THEN 40
                ELSE IF f.is_executable THEN 30 ELSE 0)
             + (IF f.size > 10 * MiB THEN 10
                ELSE IF f.size > 1 * MiB THEN 5 ELSE 0)
             - (IF f.size < 100 * KiB THEN 20 ELSE 0))

LZMAScore(f) ==
    Clamp(60 + (IF f.size > 1 * MiB THEN 20 ELSE 0)
             - (IF f.type = "pe_executable" THEN 30 ELSE 0))

BrotliScore(f) ==
    Clamp(65 + (IF f.extension \in TextExtensions THEN 25 ELSE 0)
             - (IF f.type = "pe_executable" THEN 40 ELSE 0))

CustomScore(f) ==
    Clamp(70 + 15 + (IF f.size > 500 * KiB THEN 10 ELSE 0))

CompressorScore(m, f) ==
    CASE m = "upx"    -> UPXScore(f)
      [] m = "lzma"   -> LZMAScore(f)
      [] m = "brotli" -> BrotliScore(f)
      [] m = "custom" -> CustomScore(f)

(***************************************************************************)
(* Python's max(keys, key=...): one pass in iteration order, the running   *)
(* best replaced only by a strictly greater key, so the first of several   *)
(* maximal elements is returned.                                           *)
(***************************************************************************)
RECURSIVE PyMaxFrom(_, _, _)
PyMaxFrom(rest, score, best) ==
    IF rest = <<>> THEN best
    ELSE PyMaxFrom(Tail(rest), score,
                   IF score[Head(rest)] > score[best] THEN Head(rest) ELSE best)

PyMaxLast(keys, score) ==
    LET RECURSIVE go(_, _)
        go(rest, best) ==
            IF rest = <<>> THEN best
            ELSE go(Tail(rest),
                    IF score[Head(rest)] >= score[best] THEN Head(rest) ELSE best)
    IN go(Tail(keys), Head(keys))

PyMax(keys, score) == PyMaxFrom(Tail(keys), score, Head(keys))

\* The keys of an available_* dict, in registry order.
AvailableKeys(order, avail) == SelectSeq(order, LAMBDA k : k \in avail)

(***************************************************************************)
(* CompilerEngine.select_best_compiler: the preferred compiler when it is  *)
(* set and available; otherwise the best score; RuntimeError when nothing  *)
(* is available.                                                           *)
(***************************************************************************)
select_by_score_only(avail, o) ==
    LET keys   == AvailableKeys(CompilerOrder, avail)
        scores == [c \in avail |-> CompilerScore(c, o)]
    IN IF keys = <<>> THEN "RuntimeError" ELSE PyMax(keys, scores)

select_best_compiler(avail, o) ==
    IF o.preferred_compiler # "None" /\ o.preferred_compiler \in avail
    THEN o.preferred_compiler
    ELSE LET keys   == AvailableKeys(CompilerOrder, avail)
             scores == [c \in avail |-> CompilerScore(c, o)]
         IN IF keys = <<>> THEN "RuntimeError" ELSE PyMax(keys, scores)

(***************************************************************************)
(* CompressionHandler.select_best_compressor: the requested method when it *)
(* is not AUTO and available; otherwise the best score.                    *)
(***************************************************************************)
select_best_compressor(avail, m, f) ==
    IF m # "auto" /\ m \in avail
    THEN m
    ELSE LET keys   == AvailableKeys(CompressorOrder, avail)
             scores == [c \in avail |-> CompressorScore(c, f)]
         IN IF keys = <<>> THEN "RuntimeError" ELSE PyMax(keys, scores)

(***************************************************************************)
(* Inputs.                                                                 *)
(***************************************************************************)
NoOptions == [optimize |-> FALSE, obfuscate |-> FALSE,
              encrypt_bytecode |-> FALSE, preferred_compiler |-> "None",
              output_name |-> "None"]

CompilationOptions ==
    [optimize : BOOLEAN, obfuscate : BOOLEAN, encrypt_bytecode : BOOLEAN,
     preferred_compiler : CompilerType \cup {"None"},
     output_name : {"None"}]

\* File sizes around the thresholds the scores compare against.
SampleSizes == {0, 100 * KiB - 1, 100 * KiB, 500 * KiB, 500 * KiB + 1,
                1 * MiB, 1 * MiB + 1, 10 * MiB, 10 * MiB + 1}

NoFileInfo == [type |-> "None", is_executable |-> FALSE, size |-> 0,
               extension |-> ""]

FileInfos ==
    [type : {"pe_executable", "elf_executable", "mach_executable", "unknown"},
     is_executable : BOOLEAN,
     size : SampleSizes,
     extension : {".exe", ".txt", ""}] \cup {NoFileInfo}

\* LZMA and the custom compressor report is_available() = True always;
\* UPX and Brotli depend on the host.
CompressorAvailabilities ==
    {{"lzma", "custom"} \cup s : s \in SUBSET {"upx", "brotli"}}

SelIdle ==
    /\ stage = "idle"
    /\ available_compilers = {}
    /\ options = NoOptions
    /\ available_compressors = {}
    /\ method = "auto"
    /\ file_info = NoFileInfo
    /\ selected = "pending"

EngIdle ==
    /\ scripts = <<>>
    /\ source_exists = <<>>
    /\ output_dir_ok = TRUE
    /\ tasks = <<>>
    /\ gathered = FALSE
    /\ final_results = <<>>
    /\ temp_setup = "absent"

CmpIdle ==
    /\ cpc = "idle"
    /\ backup_original = TRUE
    /\ artifact = "absent"
    /\ backup = "absent"
    /\ compressed_file = FALSE
    /\ pending = PendingResult
    /\ cresult = PendingResult

AnaIdle ==
    /\ apc = "idle"
    /\ program = <<>>
    /\ include_stdlib = FALSE
    /\ trace = "None"
    /\ static_deps = <<>>
    /\ dynamic_deps = <<>>
    /\ classified = <<>>
    /\ circular = <<>>
    /\ warnings = <<>>

\* ProtectionResult, before protect_code has returned one.
PendingProtection ==
    [kind |-> "pending", success |-> FALSE, protected_files |-> <<>>,
     methods_applied |-> <<>>, error_message |-> "None"]

ProIdle ==
    /\ xpc = "idle"
    /\ level = "None"
    /\ explicit_methods = <<>>
    /\ available_protectors = {}
    /\ source_path = <<>>
    /\ methods = <<>>
    /\ next_method = 0
    /\ current_path = <<>>
    /\ all_protected_files = <<>>
    /\ all_methods = <<>>
    /\ applied = <<>>
    /\ presult = PendingProtection

ObfIdle ==
    /\ opc = "idle"
    /\ source_code = <<>>
    /\ obfuscate_names = FALSE
    /\ builtin_names = {}
    /\ tree = <<>>
    /\ visited = 0
    /\ name_map = <<>>
    /\ written = <<>>

\* ProtectionOptions defaults (level INTERMEDIATE).
NoProtectionOptions ==
    [level |-> "intermediate", obfuscate_names |-> TRUE, obfuscate_strings |-> TRUE,
     encrypt_bytecode |-> FALSE, add_anti_debug |-> FALSE]

ScoIdle ==
    /\ score_stage = "idle"
    /\ protection_options = NoProtectionOptions
    /\ crypto_available = FALSE
    /\ score_log = <<>>

\* What importlib and the filesystem answer about a module, and
\* DependencyInfo(name=...) as constructed.
NoModuleFacts ==
    [in_stdlib |-> FALSE, find_spec |-> "None", file_exists |-> FALSE,
     is_package |-> FALSE, getsize_raises |-> FALSE, getsize |-> 0,
     directory_size |-> 0]

NewDependencyInfo ==
    [is_builtin |-> FALSE, is_local |-> FALSE, is_third_party |-> FALSE,
     location |-> "None", size_estimate |-> 0]

EstIdle ==
    /\ epc = "idle"
    /\ module_facts = NoModuleFacts
    /\ info = NewDependencyInfo

DefaultCompressionOptions == [method |-> "auto", backup_original |-> TRUE]

BcIdle ==
    /\ bpc = "idle"
    /\ batch_files = <<>>
    /\ base_options = DefaultCompressionOptions
    /\ batch_results = <<>>

NoScriptPath == [module |-> "None", normal |-> TRUE]

StaIdle ==
    /\ spc = "idle"
    /\ sources = <<>>
    /\ unparsable = {}
    /\ script_path = NoScriptPath
    /\ deep = FALSE
    /\ analyzed_files = {}
    /\ parse_log = <<>>
    /\ call_stack = <<>>
    /\ dependencies = <<>>

TailIdle == BcIdle /\ StaIdle

AuxIdle == AnaIdle /\ ProIdle /\ ObfIdle /\ ScoIdle /\ EstIdle /\ TailIdle

PipeIdle ==
    /\ ppc = "idle"
    /\ output = "None"
    /\ compress = "none"
    /\ protect = "none"
    /\ calls = <<>>

(***************************************************************************)
(* Specification SpecSelect: the two schedulers applied to every job and   *)
(* every availability set.                                                 *)
(***************************************************************************)
SelInit ==
    /\ EngIdle
    /\ CmpIdle
    /\ PipeIdle
    /\ AuxIdle
    /\ selected = "pending"
    /\ \/ /\ stage = "compile"
          /\ available_compilers \in SUBSET CompilerType
          /\ options \in CompilationOptions
          /\ available_compressors = {}
          /\ method = "auto"
          /\ file_info = NoFileInfo
       \/ /\ stage = "compress"
          /\ available_compilers = {}
          /\ options = NoOptions
          /\ available_compressors \in CompressorAvailabilities
          /\ method \in CompressionMethod
          /\ file_info \in FileInfos

SelectCompiler ==
    /\ stage = "compile"
    /\ selected = "pending"
    /\ selected' = select_best_compiler(available_compilers, options)
    /\ UNCHANGED <<stage, available_compilers, options, available_compressors,
                   method, file_info>>
    /\ UNCHANGED <<engVars, cmpVars, pipeVars, auxVars>>

SelectCompressor ==
    /\ stage = "compress"
    /\ selected = "pending"
    /\ selected' = select_best_compressor(available_compressors, method, file_info)
    /\ UNCHANGED <<stage, available_compilers, options, available_compressors,
                   method, file_info>>
    /\ UNCHANGED <<engVars, cmpVars, pipeVars, auxVars>>

SelNext == SelectCompiler \/ SelectCompressor

SpecSelect == SelInit /\ [][SelNext]_vars

(***************************************************************************)
(* Claims about selection.                                                 *)
(***************************************************************************)
IndexOf(seq, x) == CHOOSE i \in DOMAIN seq : seq[i] = x

\* Tool names in alphabetical order.
AlphabeticalOrder ==
    <<"brotli", "custom", "cx_freeze", "lzma", "nuitka", "pyinstaller", "upx">>

\* The candidate set and the scores of the selection that ran.
Candidates ==
    IF stage = "compile" THEN available_compilers ELSE available_compressors

CandidateScore(c) ==
    IF stage = "compile" THEN CompilerScore(c, options)
    ELSE CompressorScore(c, file_info)

RegistryOrder == IF stage = "compile" THEN CompilerOrder ELSE CompressorOrder

\* The job names a tool and that tool is available: no scoring happens.
PreferenceApplies ==
    IF stage = "compile"
    THEN options.preferred_compiler # "None"
         /\ options.preferred_compiler \in available_compilers
    ELSE method # "auto" /\ method \in available_compressors

ScoredSelection ==
    /\ stage \in {"compile", "compress"}
    /\ selected # "pending"
    /\ ~PreferenceApplies
    /\ Candidates # {}

HighestScore(c) ==
    /\ c \in Candidates
    /\ \A d \in Candidates : CandidateScore(d) <= CandidateScore(c)

\* C3 (as amended): when the job names no available tool, the scheduler
\* returns an available candidate with the highest score, and among several
\* candidates with the highest score the one declared first in the registry
\* (pyinstaller, nuitka, cx_freeze; upx, lzma, brotli, custom).
C3_HighestScoreFirstDeclared ==
    ScoredSelection =>
        /\ HighestScore(selected)
        /\ \A d \in Candidates :
              HighestScore(d) =>
                  IndexOf(RegistryOrder, selected) <= IndexOf(RegistryOrder, d)

\* C3 (as stated): the highest score wins and ties go to the tool whose name
\* is alphabetically first.
C3_HighestScoreAlphabetical ==
    ScoredSelection =>
        /\ HighestScore(selected)
        /\ \A d \in Candidates :
              HighestScore(d) =>
                  IndexOf(AlphabeticalOrder, selected) <= IndexOf(AlphabeticalOrder, d)

\* A scored compile selection in which two candidates share the highest score.
C3_TieWitness ==
    /\ ScoredSelection
    /\ stage = "compile"
    /\ \E d \in Candidates : d # selected /\ HighestScore(d)

\* The compile scheduler ran on a job that names a preferred compiler.
PreferredSelection ==
    /\ stage = "compile"
    /\ selected # "pending"
    /\ options.preferred_compiler # "None"

\* C12: when the job names a preferred compiler and that compiler is
\* available, select_best_compiler returns exactly that compiler, whatever
\* the scores of the other available compilers.
C12_AvailablePreferenceWins ==
    (PreferredSelection /\ options.preferred_compiler \in available_compilers) =>
        selected = options.preferred_compiler

\* The preferred compiler was returned although another available compiler
\* scores strictly higher.
C12_PreferredNotBestWitness ==
    /\ PreferredSelection
    /\ options.preferred_compiler \in available_compilers
    /\ selected = options.preferred_compiler
    /\ \E d \in available_compilers :
          CompilerScore(d, options) > CompilerScore(selected, options)

\* C13: when the job names a preferred compiler that is not available, the
\* scheduler selects no other compiler: it fails with no-tool-available.
C13_UnavailablePreferenceFails ==
    (PreferredSelection /\ options.preferred_compiler \notin available_compilers) =>
        selected = "RuntimeError"

(***************************************************************************)
(* The compile stage.                                                      *)
(*                                                                         *)
(* A result is a CompilationResult the coroutine returned                  *)
(* (kind = "returned"), or the exception that left it (kind = "raised").   *)
(* Paths are <<directory, base name, shape>>; <<>> is None.                *)
(***************************************************************************)
\* options.output_name or Path(options.source_path).stem
BaseName(o, script) == IF o.output_name # "None" THEN o.output_name ELSE script

\* PyInstallerBackend._find_output_file: possible_paths
PyInstallerCandidates(base) ==
    << <<"output_path", base, "base.exe">>, <<"output_path", base, "base">>,
       <<"dist", base, "base.exe">>, <<"dist", base, "base">> >>

\* The possible_paths of the _find_output_file that is nested in
\* NuitkaBackend.compile after its last return, and so is never bound to
\* the class.
NuitkaCandidates(base) ==
    << <<"output_path", base, "base.exe">>, <<"output_path", base, "base/base.exe">>,
       <<"output_path", base, "base">>, <<"dist", base, "base.exe">>,
       <<"dist", base, "base/base.exe">> >>

\* CxFreezeBackend._find_output_file: possible_paths
CxFreezeCandidates(base) ==
    << <<"output_path", base, "base.exe">>, <<"output_path", base, "base">> >>

LocatorCandidates(backend, base) ==
    CASE backend = "pyinstaller" -> PyInstallerCandidates(base)
      [] backend = "nuitka"      -> NuitkaCandidates(base)
      [] backend = "cx_freeze"   -> CxFreezeCandidates(base)

\* for path in possible_paths: if os.path.exists(path): return path
RECURSIVE FirstExisting(_, _)
FirstExisting(paths, existing) ==
    IF paths = <<>> THEN NoPath
    ELSE IF Head(paths) \in existing THEN Head(paths)
    ELSE FirstExisting(Tail(paths), existing)

\* What self._find_output_file(options) evaluates to in each backend:
\* a path, None, or (kind "raised") the AttributeError of NuitkaBackend,
\* which has no such method.
find_output_file(backend, base, existing) ==
    IF backend = "nuitka"
    THEN [kind |-> "raised", path |-> NoPath]
    ELSE [kind |-> "returned",
          path |-> FirstExisting(LocatorCandidates(backend, base), existing)]

\* The tail of <Backend>.compile once process.communicate() returned:
\* returncode, decoded stderr and the files that exist decide the result.
BackendResult(backend, base, rc, err, existing) ==
    IF rc = 0
    THEN LET found == find_output_file(backend, base, existing)
         IN IF found.kind = "raised"
            THEN Failure("'NuitkaBackend' object has no attribute '_find_output_file'",
                         backend)
            ELSE IF found.path # NoPath /\ found.path \in existing
                 THEN Success(found.path, backend)
                 ELSE Failure("Fichier de sortie introuvable", backend)
    ELSE Failure(err, backend)

\* A compile coroutine.  setup is what the cx_Freeze child process found at
\* temp_setup.py when it opened it ("unread" before that); alone is the
\* result the same compile yields when no other job touches temp_setup.py.
NewTask ==
    [pc |-> "created", made_dir |-> FALSE, backend |-> "None", spawned |-> 0,
     setup |-> "unread", rc |-> 0, existing |-> {}, result |-> PendingResult,
     alone |-> PendingResult]

Finished(t, r) == [t EXCEPT !.pc = "done", !.result = r, !.alone = r]

(***************************************************************************)
(* CompilerEngine.compile up to its first suspension: the source check,    *)
(* os.makedirs (outside the try), the selection, and the backend's compile *)
(* up to create_subprocess_exec.  spawn_ok says whether the child process  *)
(* could be created.                                                       *)
(***************************************************************************)
\* The steps of compile that follow the source check, the output directory
\* created or not.
CompileFromSelection(t, dir_ok, spawn_ok) ==
    IF ~dir_ok
    THEN Finished(t, Raised("OSError"))
    ELSE LET b == select_best_compiler(available_compilers, options)
         IN IF b = "RuntimeError"
            THEN Finished(t, Failure("Aucun compilateur disponible", "None"))
            ELSE IF ~spawn_ok
            THEN Finished([t EXCEPT !.backend = b],
                          Failure("[Errno 2] No such file or directory", b))
            ELSE [t EXCEPT !.pc = "running", !.backend = b, !.spawned = 1]

\* The mutation of CompileStart in which os.makedirs precedes the source
\* check.
CompileStartDirFirst(t, script, spawn_ok) ==
    LET made == [t EXCEPT !.made_dir = TRUE]
    IN IF ~output_dir_ok THEN Finished(made, Raised("OSError"))
       ELSE IF ~source_exists[script]
       THEN Finished(made, FailureNaming("Fichier source introuvable", script))
       ELSE CompileFromSelection(made, TRUE, spawn_ok)

CompileStart(t, script, spawn_ok) ==
    IF ~source_exists[script]
    THEN Finished(t, FailureNaming("Fichier source introuvable", script))
    ELSE CompileFromSelection([t EXCEPT !.made_dir = TRUE], output_dir_ok, spawn_ok)

\* CxFreezeBackend.compile writes <source dir>/temp_setup.py before the spawn
\* and removes it in its finally block; the scripts of a batch lie in one
\* directory, so the file is shared.
EngineStart(i) ==
    /\ tasks[i].pc = "created"
    /\ \E spawn_ok \in BOOLEAN :
          LET t == CompileStart(tasks[i], scripts[i], spawn_ok)
          IN /\ tasks' = [tasks EXCEPT ![i] = t]
             /\ temp_setup' = IF t.backend # "cx_freeze" THEN temp_setup
                              ELSE IF t.pc = "running" THEN scripts[i]
                              ELSE "absent"
    /\ UNCHANGED <<scripts, source_exists, output_dir_ok, gathered, final_results>>
    /\ UNCHANGED <<selVars, cmpVars, pipeVars, auxVars>>

\* The cx_Freeze child process (python temp_setup.py build_exe) opens the
\* setup script: it gets whatever the file holds at that moment.
SetupRead(i) ==
    /\ tasks[i].pc = "running"
    /\ tasks[i].backend = "cx_freeze"
    /\ tasks[i].setup = "unread"
    /\ tasks' = [tasks EXCEPT ![i].setup = temp_setup]
    /\ UNCHANGED <<scripts, source_exists, output_dir_ok, gathered, final_results,
                   temp_setup>>
    /\ UNCHANGED <<selVars, cmpVars, pipeVars, auxVars>>

ExitCodes == {0, 1}

StderrTexts == {"", "error: build failed"}

\* The sets of locator candidates that may exist when the child has exited:
\* every subset, or (sample) none and the first candidate only.
ExistingChoices(backend, base, sample) ==
    LET candidates == LocatorCandidates(backend, base)
    IN IF sample THEN {{}, {candidates[1]}} ELSE SUBSET Range(candidates)

\* What the child process of task t leaves, where (rc, err, existing) is what
\* the build of the job's own script yields.  A cx_Freeze child that found no
\* temp_setup.py exits with code 2; one that found another job's setup script
\* builds that job's executable, under that job's name.
ChildOutcome(t, script, rc, err, existing) ==
    IF t.backend # "cx_freeze" \/ t.setup = script
    THEN [rc |-> rc, err |-> err, existing |-> existing]
    ELSE IF t.setup = "absent"
    THEN [rc |-> 2, err |-> "can't open file 'temp_setup.py'", existing |-> {}]
    ELSE [rc |-> rc, err |-> err,
          existing |-> IF BaseName(options, t.setup) = BaseName(options, script)
                       THEN existing ELSE {}]

\* The child exits: communicate() returns and the coroutine runs to its end
\* (for cx_Freeze through the finally block that removes temp_setup.py).
SubprocessExit(i, sample) ==
    /\ tasks[i].pc = "running"
    /\ tasks[i].backend = "cx_freeze" => tasks[i].setup # "unread"
    /\ LET t       == tasks[i]
           backend == t.backend
           base    == BaseName(options, scripts[i])
       IN /\ \E rc \in ExitCodes, err \in StderrTexts :
                \E existing \in ExistingChoices(backend, base, sample) :
                   LET ran == ChildOutcome(t, scripts[i], rc, err, existing)
                       r   == BackendResult(backend, base, ran.rc, ran.err, ran.existing)
                   IN tasks' = [tasks EXCEPT ![i] =
                          [Finished([t EXCEPT !.rc = ran.rc, !.existing = ran.existing], r)
                               EXCEPT !.alone = BackendResult(backend, base, rc, err, existing)]]
          /\ temp_setup' = IF backend = "cx_freeze" THEN "absent" ELSE temp_setup
    /\ UNCHANGED <<scripts, source_exists, output_dir_ok, gathered, final_results>>
    /\ UNCHANGED <<selVars, cmpVars, pipeVars, auxVars>>

EngineOptions ==
    [optimize : BOOLEAN, obfuscate : BOOLEAN, encrypt_bytecode : {FALSE},
     preferred_compiler : CompilerType \cup {"None"},
     output_name : {"None", "app"}]

(***************************************************************************)
(* Specification SpecCompile: one CompilerEngine.compile call, for every   *)
(* availability set, job and outcome of the child process.                 *)
(***************************************************************************)
CompileInit ==
    /\ stage = "idle"
    /\ available_compilers \in SUBSET CompilerType
    /\ options \in EngineOptions
    /\ available_compressors = {}
    /\ method = "auto"
    /\ file_info = NoFileInfo
    /\ selected = "pending"
    /\ scripts = <<"main">>
    /\ source_exists \in [{"main"} -> BOOLEAN]
    /\ output_dir_ok \in BOOLEAN
    /\ tasks = <<NewTask>>
    /\ gathered = FALSE
    /\ final_results = <<>>
    /\ temp_setup = "absent"
    /\ CmpIdle
    /\ PipeIdle
    /\ AuxIdle

CompileNext ==
    \/ EngineStart(1)
    \/ SetupRead(1)
    \/ SubprocessExit(1, FALSE)

SpecCompile == CompileInit /\ [][CompileNext]_vars

(***************************************************************************)
(* Claims about the compile stage.                                         *)
(***************************************************************************)
TaskIds == DOMAIN tasks

Done(i) == tasks[i].pc = "done"

\* C4: with no compiler backend available, compile on an existing source
\* returns a failure result (no tool available) and spawns no subprocess.
C4_NoToolReturnsFailureNoSpawn ==
    \A i \in TaskIds :
        (Done(i) /\ available_compilers = {} /\ source_exists[scripts[i]]) =>
            /\ tasks[i].result.kind = "returned"
            /\ ~tasks[i].result.success
            /\ tasks[i].result.error_message = "Aucun compilateur disponible"
            /\ tasks[i].spawned = 0

\* The first candidate of the locator, in its order, that exists.
IsFirstExisting(path, candidates, existing) ==
    \E k \in DOMAIN candidates :
        /\ candidates[k] = path
        /\ path \in existing
        /\ \A j \in 1..(k - 1) : candidates[j] \notin existing

\* C5: for each backend, once the subprocess has exited, compile returns
\* success exactly when the exit code is 0 and some locator candidate exists,
\* and then output_path is the first existing candidate in locator order.
C5_SuccessIffExitZeroAndArtifact ==
    \A i \in TaskIds :
        (Done(i) /\ tasks[i].spawned = 1) =>
            LET t          == tasks[i]
                candidates == LocatorCandidates(t.backend, BaseName(options, scripts[i]))
            IN /\ t.result.kind = "returned"
               /\ t.result.success <=>
                     (t.rc = 0 /\ \E k \in DOMAIN candidates : candidates[k] \in t.existing)
               /\ t.result.success =>
                     IsFirstExisting(t.result.output_path, candidates, t.existing)

C6_FailureHasErrorText ==
    \A i \in TaskIds :
        (Done(i) /\ tasks[i].result.kind = "returned" /\ ~tasks[i].result.success) =>
            tasks[i].result.error_message # ""

\* C7: no exception leaves CompilerEngine.compile: every call returns a
\* result value.
C7_CompileNeverRaises ==
    \A i \in TaskIds : Done(i) => tasks[i].result.kind = "returned"

(***************************************************************************)
(* The compress stage: CompressionHandler.compress_executable and, for     *)
(* UPX, UPXCompressor.compress with its backup / restore / cleanup.        *)
(*                                                                         *)
(* File contents: "original" (the artifact as the stage found it),         *)
(* "packed" (UPX's output), "damaged" (what a failed UPX run may leave),   *)
(* "stale" (a .backup left by an earlier run), "absent" (no file).         *)
(***************************************************************************)
MethodStrings == CompressionMethod \cup {"zip"}

\* Every step below leaves these alone.
CompressFrame ==
    /\ UNCHANGED <<stage, available_compilers, options, available_compressors,
                   method, file_info, backup_original>>
    /\ UNCHANGED <<engVars, pipeVars, auxVars>>

\* compress_executable returns (or raises) r.
CompressReturns(r) ==
    /\ cpc' = "done"
    /\ cresult' = r

\* compress_executable up to the first suspension.  The validation, the
\* CompressionMethod(method) conversion (outside the try), the selection;
\* then the selected compressor: LZMA, Brotli and the custom compressor read
\* the file and write <file>.<ext> in one go; UPX stats the file, copies it
\* to <file>.backup when backup_original is set (a failed copy is only
\* logged) and spawns upx.
CompressStart ==
    /\ cpc = "start"
    /\ IF artifact = "absent"
       THEN /\ CompressReturns(Failure("Fichier non trouve", "None"))
            /\ UNCHANGED <<artifact, backup, compressed_file, pending, selected>>
       ELSE IF method \notin CompressionMethod
       THEN /\ CompressReturns(Raised("ValueError"))
            /\ UNCHANGED <<artifact, backup, compressed_file, pending, selected>>
       ELSE LET c == select_best_compressor(available_compressors, method, file_info)
            IN /\ selected' = c
               /\ IF c = "RuntimeError"
                  THEN /\ CompressReturns(Failure("Aucun compresseur disponible", "None"))
                       /\ UNCHANGED <<artifact, backup, compressed_file, pending>>
                  ELSE IF c # "upx"
                  THEN /\ \E io_ok \in BOOLEAN :
                             IF io_ok
                             THEN /\ compressed_file' = TRUE
                                  /\ CompressReturns(Success(<<"exe_path", c>>, c))
                             ELSE /\ compressed_file' = FALSE
                                  /\ CompressReturns(Failure("[Errno 13] Permission denied", "None"))
                       /\ UNCHANGED <<artifact, backup, pending>>
                  ELSE \E stat_ok, copy_ok, spawn_ok \in BOOLEAN :
                          IF ~stat_ok
                          THEN /\ CompressReturns(Failure("Erreur lecture fichier", "None"))
                               /\ UNCHANGED <<artifact, backup, compressed_file, pending>>
                          ELSE /\ backup' = IF backup_original /\ copy_ok
                                            THEN "original" ELSE backup
                               /\ IF spawn_ok
                                  THEN /\ cpc' = "running"
                                       /\ UNCHANGED pending
                                  ELSE /\ cpc' = "restore"
                                       /\ pending' = Failure("[Errno 2] No such file or directory", "None")
                               /\ UNCHANGED <<artifact, compressed_file, cresult>>
    /\ CompressFrame

\* What upx may leave at exe_path when it exits with rc.
UPXOutcomes(rc) == IF rc = 0 THEN {"packed", "absent"}
                   ELSE {"original", "damaged", "absent"}

\* upx exits.  Exit code 0: os.path.getsize(file_path) and a success result,
\* or "Erreur post-compression" when getsize raises (the file is gone, or it
\* is there and cannot be read); nothing is restored on this path.  Non-zero: the restore step, then a failure whose
\* text is stderr or, when stderr is empty, "Erreur UPX inconnue".
UPXExit ==
    /\ cpc = "running"
    /\ \E rc \in ExitCodes, err \in StderrTexts :
          \E left \in UPXOutcomes(rc), getsize_ok \in BOOLEAN :
             /\ artifact' = left
             /\ IF rc = 0
                THEN /\ cpc' = "cleanup"
                     /\ pending' = IF left # "absent" /\ getsize_ok
                                   THEN Success(<<"exe_path">>, "upx")
                                   ELSE Failure("Erreur post-compression", "None")
                ELSE /\ cpc' = "restore"
                     /\ pending' = Failure(IF err # "" THEN err ELSE "Erreur UPX inconnue",
                                           "None")
    /\ UNCHANGED <<backup, compressed_file, cresult, selected>>
    /\ CompressFrame

\* Whether backup_path is set and os.path.exists(backup_path).
BackupPresent == backup_original /\ backup # "absent"

\* if backup_path and os.path.exists(backup_path): shutil.move(backup_path,
\* file_path), any exception of the move swallowed.
Restore ==
    /\ cpc = "restore"
    /\ IF BackupPresent
       THEN \E move_ok \in BOOLEAN :
               IF move_ok
               THEN artifact' = backup /\ backup' = "absent"
               ELSE UNCHANGED <<artifact, backup>>
       ELSE UNCHANGED <<artifact, backup>>
    /\ cpc' = "cleanup"
    /\ UNCHANGED <<compressed_file, pending, cresult, selected>>
    /\ CompressFrame

\* finally: the backup is removed when it and the file both exist, any
\* exception of os.remove swallowed; then the pending result is returned.
CleanupRemoves == BackupPresent /\ artifact # "absent"

Cleanup ==
    /\ cpc = "cleanup"
    /\ IF CleanupRemoves
       THEN \E remove_ok \in BOOLEAN :
               backup' = IF remove_ok THEN "absent" ELSE backup
       ELSE UNCHANGED backup
    /\ CompressReturns(pending)
    /\ UNCHANGED <<artifact, compressed_file, pending, selected>>
    /\ CompressFrame

\* A PE executable above 1 MiB (UPX scores highest) and a small text file.
CompressFileInfos ==
    {[type |-> "pe_executable", is_executable |-> TRUE, size |-> 1 * MiB + 1,
      extension |-> ".exe"],
     [type |-> "unknown", is_executable |-> FALSE, size |-> 100 * KiB,
      extension |-> ".txt"]}

(***************************************************************************)
(* Specification SpecCompress: one compress_executable call.               *)
(***************************************************************************)
CompressInit ==
    /\ stage = "compress"
    /\ available_compilers = {}
    /\ options = NoOptions
    /\ available_compressors \in CompressorAvailabilities
    /\ method \in MethodStrings
    /\ file_info \in CompressFileInfos
    /\ selected = "pending"
    /\ EngIdle
    /\ PipeIdle
    /\ AuxIdle
    /\ cpc = "start"
    /\ backup_original \in BOOLEAN
    /\ artifact \in {"original", "absent"}
    /\ backup \in {"absent", "stale"}
    /\ compressed_file = FALSE
    /\ pending = PendingResult
    /\ cresult = PendingResult

CompressNext == CompressStart \/ UPXExit \/ Restore \/ Cleanup

SpecCompress == CompressInit /\ [][CompressNext]_vars

(***************************************************************************)
(* Claims about the compress stage.                                        *)
(***************************************************************************)
CompressFailed == cresult.kind = "raised" \/ ~cresult.success

\* The stage found a file at exe_path (its content then is "original").
RanOnArtifact == cresult.error_message # "Fichier non trouve"

\* C1: whenever the compress stage ran with backup enabled on an artifact
\* and failed, the artifact's content when the stage returns is its content
\* before the stage started.
C1_FailedCompressRestoresArtifact ==
    (cpc = "done" /\ backup_original /\ RanOnArtifact /\ CompressFailed) =>
        artifact = "original"

\* C2: when the compress stage has returned, successfully or not, no
\* <artifact>.backup file created by that stage remains on disk.
C2_NoBackupLeftBehind ==
    cpc = "done" => backup # "original"

\* C25: with backup enabled, UPXCompressor.compress deletes the backup it
\* made only after the compression succeeded or after the artifact has been
\* restored from it.
C25_BackupOutlivesFailure ==
    [][(backup_original /\ backup = "original" /\ backup' = "absent") =>
           (artifact' = "original" \/ pending.success)]_vars

(***************************************************************************)
(* CompilerEngine.batch_compile: one compile coroutine per script, all     *)
(* handed to asyncio.gather(return_exceptions=True); the coroutines share  *)
(* the engine, the base options and the output directory.                  *)
(***************************************************************************)
NJobs == 3

\* The parallelism the batch is asked to respect.
Parallelism == 2

ScriptNames == <<"s1", "s2", "s3", "s4", "s5", "s6">>

\* The dataclass defaults of CompilationOptions (optimize = True).
BaseOptions == [optimize |-> TRUE, obfuscate |-> FALSE,
                encrypt_bytecode |-> FALSE, preferred_compiler |-> "None",
                output_name |-> "None"]

\* The base options of a batch: every job gets a copy that differs in
\* source_path only, so a base output_name is the output_name of every job.
BatchOptions == {BaseOptions, [BaseOptions EXCEPT !.output_name = "app"]}

\* for i, result in enumerate(results): an exception becomes a failure
\* result carrying str(exception); a result is kept.
FinalResult(result) ==
    IF result.kind = "raised" THEN Failure(result.error_message, "None")
    ELSE result

FinalResults(results) == [i \in DOMAIN results |-> FinalResult(results[i])]

\* The event loop starts the coroutines in the order gather received them;
\* each runs up to its first suspension.
BatchStart(i) ==
    /\ \A j \in 1..(i - 1) : tasks[j].pc # "created"
    /\ EngineStart(i)

\* Every coroutine has finished: gather returns, batch_compile converts the
\* exceptions and returns final_results.
Gather ==
    /\ ~gathered
    /\ \A i \in DOMAIN tasks : tasks[i].pc = "done"
    /\ gathered' = TRUE
    /\ final_results' = FinalResults([i \in DOMAIN tasks |-> tasks[i].result])
    /\ UNCHANGED <<scripts, source_exists, output_dir_ok, tasks, temp_setup>>
    /\ UNCHANGED <<selVars, cmpVars, pipeVars, auxVars>>

(***************************************************************************)
(* Specification SpecBatch: one batch_compile call over NJobs scripts of   *)
(* one directory.                                                          *)
(***************************************************************************)
BatchInit ==
    /\ stage = "idle"
    /\ available_compilers \in {{}, {"pyinstaller"}, {"cx_freeze"}}
    /\ options \in BatchOptions
    /\ available_compressors = {}
    /\ method = "auto"
    /\ file_info = NoFileInfo
    /\ selected = "pending"
    /\ scripts = SubSeq(ScriptNames, 1, NJobs)
    /\ source_exists \in [Range(scripts) -> BOOLEAN]
    /\ output_dir_ok \in BOOLEAN
    /\ tasks = [i \in 1..NJobs |-> NewTask]
    /\ gathered = FALSE
    /\ final_results = <<>>
    /\ temp_setup = "absent"
    /\ CmpIdle
    /\ PipeIdle
    /\ AuxIdle

BatchNext ==
    \/ \E i \in 1..NJobs : BatchStart(i)
    \/ \E i \in 1..NJobs : SetupRead(i)
    \/ \E i \in 1..NJobs : SubprocessExit(i, TRUE)
    \/ Gather

SpecBatch == BatchInit /\ [][BatchNext]_vars

(***************************************************************************)
(* Claims about batch_compile.                                             *)
(***************************************************************************)
InFlight == {i \in TaskIds : tasks[i].pc = "running"}

\* C9: while a batch of n jobs runs with parallelism p, at no moment are
\* more than p compile subprocesses in flight.
C9_AtMostParallelismInFlight ==
    Cardinality(InFlight) <= Parallelism

\* C10: batch_compile returns exactly one result per input script, in input
\* order, every one a result value (an exception of a job became that job's
\* failure result), and when a sibling job failed, each job's result is
\* still the one that job yields on its own.
C10_BatchIsolation ==
    gathered =>
        /\ Len(final_results) = Len(scripts)
        /\ \A i \in TaskIds :
              /\ final_results[i].kind = "returned"
              /\ (\E j \in TaskIds \ {i} : ~final_results[j].success) =>
                     final_results[i] = FinalResult(tasks[i].alone)

(***************************************************************************)
(* The CLI pipeline: main_cli.compile (_compile_async).  It builds the     *)
(* options, awaits the compile stage, and on success awaits                *)
(* _apply_compression (unless --compress none) and then _apply_protection  *)
(* (unless --protect none).  Any exception, and a failed compile, end in   *)
(* sys.exit(1).                                                            *)
(***************************************************************************)
CompressChoices == {"none", "auto", "upx", "lzma", "brotli"}

ProtectChoices == {"none", "basic", "intermediate", "advanced", "maximum"}

\* The mutation of the success test below: the stages run whatever the
\* compile stage returned.
ContinuesRegardless(result) == TRUE

\* if result.success: ... else: sys.exit(1); an exception of the compile
\* stage reaches the except clause, which exits as well.
ContinuesAfterCompile(result) == result.kind = "returned" /\ result.success

\* Everything the pipeline's own steps leave alone.
PipelineFrame ==
    /\ UNCHANGED <<stage, available_compilers, options, available_compressors,
                   file_info, selected>>
    /\ UNCHANGED <<engVars, auxVars>>
    /\ UNCHANGED <<backup_original, backup, compressed_file, pending, cresult>>
    /\ UNCHANGED <<output, compress, protect>>

\* The options are built inside the try: Path(output) raises TypeError when
\* --output was not given.  Otherwise the compile stage is awaited.
PipelineStart ==
    /\ ppc = "start"
    /\ IF output = "None"
       THEN ppc' = "exit1" /\ UNCHANGED calls
       ELSE ppc' = "compiling" /\ calls' = Append(calls, "compile")
    /\ UNCHANGED <<cpc, method, artifact>>
    /\ PipelineFrame

PipelineCompile ==
    /\ ppc = "compiling"
    /\ EngineStart(1) \/ SetupRead(1) \/ SubprocessExit(1, TRUE)

\* await _apply_protection(str(source_path), protect, progress), or the end.
ProtectOrFinish ==
    IF protect # "none"
    THEN ppc' = "protecting" /\ calls' = Append(calls, "protect")
    ELSE ppc' = "finished" /\ UNCHANGED calls

\* The compile stage returned (or raised).
CompileReturned ==
    /\ ppc = "compiling"
    /\ tasks[1].pc = "done"
    /\ IF ~ContinuesAfterCompile(tasks[1].result)
       THEN /\ ppc' = "exit1"
            /\ UNCHANGED <<calls, cpc, method, artifact>>
       ELSE IF compress # "none"
       THEN /\ ppc' = "compressing"
            /\ calls' = Append(calls, "compress")
            /\ cpc' = "start"
            /\ method' = compress
            /\ artifact' = "original"
       ELSE /\ ProtectOrFinish
            /\ UNCHANGED <<cpc, method, artifact>>
    /\ PipelineFrame

PipelineCompress ==
    /\ ppc = "compressing"
    /\ CompressStart \/ UPXExit \/ Restore \/ Cleanup

\* compress_executable returned: its result is only printed.
CompressReturned ==
    /\ ppc = "compressing"
    /\ cpc = "done"
    /\ IF cresult.kind = "raised"
       THEN ppc' = "exit1" /\ UNCHANGED calls
       ELSE ProtectOrFinish
    /\ UNCHANGED <<cpc, method, artifact>>
    /\ PipelineFrame

\* protect_code returned (its result is only printed) or raised.
ProtectReturned ==
    /\ ppc = "protecting"
    /\ \E outcome \in {"success", "failure", "raised"} :
          ppc' = IF outcome = "raised" THEN "exit1" ELSE "finished"
    /\ UNCHANGED <<calls, cpc, method, artifact>>
    /\ PipelineFrame

\* What the CLI can put into CompilationOptions: --name or the stem is
\* always passed as output_name.
CliOptions ==
    [optimize : BOOLEAN, obfuscate : {FALSE}, encrypt_bytecode : {FALSE},
     preferred_compiler : {"None"}, output_name : {"app"}]

(***************************************************************************)
(* Specification SpecPipeline: one run of the compile command.             *)
(***************************************************************************)
PipelineInit ==
    /\ stage = "idle"
    /\ available_compilers \in SUBSET CompilerType
    /\ options \in CliOptions
    /\ available_compressors \in CompressorAvailabilities
    /\ method = "auto"
    /\ file_info = [type |-> "pe_executable", is_executable |-> TRUE,
                    size |-> 1 * MiB + 1, extension |-> ".exe"]
    /\ selected = "pending"
    /\ scripts = <<"main">>
    /\ source_exists = [s \in {"main"} |-> TRUE]
    /\ output_dir_ok \in BOOLEAN
    /\ tasks = <<NewTask>>
    /\ gathered = FALSE
    /\ final_results = <<>>
    /\ temp_setup = "absent"
    /\ CmpIdle
    /\ ppc = "start"
    /\ output \in {"None", "dist"}
    /\ compress \in CompressChoices
    /\ protect \in ProtectChoices
    /\ calls = <<>>
    /\ AuxIdle

PipelineNext ==
    \/ PipelineStart
    \/ PipelineCompile
    \/ CompileReturned
    \/ PipelineCompress
    \/ CompressReturned
    \/ ProtectReturned

SpecPipeline == PipelineInit /\ [][PipelineNext]_vars

(***************************************************************************)
(* Claims about the pipeline.                                              *)
(***************************************************************************)
Invoked(s) == \E k \in DOMAIN calls : calls[k] = s

CompileSucceeded ==
    /\ tasks[1].pc = "done"
    /\ tasks[1].result.kind = "returned"
    /\ tasks[1].result.success

\* C8: within one job the compress stage and the protect stage start only
\* after the compile stage has returned success, compress starts (and has
\* returned) before protect starts, and when compile fails neither compress
\* nor protect is invoked.
C8_StageOrdering ==
    ppc # "idle" =>
        /\ (Invoked("compress") \/ Invoked("protect")) =>
               (calls[1] = "compile" /\ CompileSucceeded)
        /\ \A k, l \in DOMAIN calls :
               (calls[k] = "compress" /\ calls[l] = "protect") => k < l
        /\ (Invoked("compress") /\ Invoked("protect")) => cpc = "done"
        /\ (tasks[1].pc = "done" /\ ~CompileSucceeded) =>
               (~Invoked("compress") /\ ~Invoked("protect"))

\* A run in which all three stages were invoked and the command finished.
C8_AllStagesWitness ==
    /\ ppc = "finished"
    /\ calls = <<"compile", "compress", "protect">>

\* The artifact a job's build writes: <output_path>/<base name>, the output
\* directory being the one of the base options for every job.
ArtifactPath(i) == <<"output_path", BaseName(options, scripts[i])>>

\* C11: two concurrent jobs of a batch never target the same output artifact
\* path (a batch with such a collision is rejected when it is submitted).
C11_NoSharedArtifactPath ==
    \A i, j \in InFlight : i # j => ArtifactPath(i) # ArtifactPath(j)

\* C26: when cx_Freeze compiles of scripts of one directory run
\* concurrently, the shared temp_setup.py holds a job's own setup script from
\* the moment the job writes it until the job's subprocess exits, and the
\* subprocess reads that script.
C26_SetupScriptIsTheJobsOwn ==
    \A i \in TaskIds :
        (tasks[i].pc = "running" /\ tasks[i].backend = "cx_freeze") =>
            /\ temp_setup = scripts[i]
            /\ tasks[i].setup \in {"unread", scripts[i]}

(***************************************************************************)
(* Dependency analysis: DependencyAnalyzer.analyze_dependencies.           *)
(*                                                                         *)
(* The program is the root script "main" and the local modules "a" and "b" *)
(* beside it; "os" is a standard-library module.  A dict is a function     *)
(* whose domain is its key set; <<>> is the empty dict.                    *)
(***************************************************************************)
Root == "main"

LocalFiles == {"main", "a", "b"}

ModuleNames == {"main", "a", "b", "os"}

\* sys.builtin_module_names and the standard library
StdlibModules == {"os"}

\* A fixed enumeration of every name a graph can hold.
NodeOrder == <<"main", "a", "b", "os", "__main__">>

\* The orders in which a Python set (or a dict filled from one) may be
\* iterated.
Orderings(S) ==
    {f \in [1..Cardinality(S) -> S] : \A i, j \in DOMAIN f : i # j => f[i] # f[j]}

\* _static_analysis: analyze_file on the script, then (deep) on every import
\* that resolves to a local file not analysed yet; the imports of a file
\* analysed as module m are added to dependencies[m].
RECURSIVE AnalyzedFiles(_, _)
AnalyzedFiles(prog, seen) ==
    LET more == seen \cup {imp \in UNION {prog[f] : f \in seen} : imp \in LocalFiles}
    IN IF more = seen THEN seen ELSE AnalyzedFiles(prog, more)

StaticAnalysis(prog) ==
    LET analyzed == AnalyzedFiles(prog, {Root})
    IN [m \in {f \in analyzed : prog[f] # {}} |-> prog[m]]

\* _dynamic_analysis: the IMPORTED: lines of a child that exited with code
\* 0 go to dependencies['__main__']; any other end of the child (non-zero
\* exit, timeout, no child at all) is logged and adds nothing.
DynamicAnalysis(outcome, traced) ==
    IF outcome = "exit0" /\ traced # {}
    THEN [m \in {"__main__"} |-> traced]
    ELSE <<>>

Get(dict, key) == IF key \in DOMAIN dict THEN dict[key] ELSE {}

\* _merge_dependencies
MergeDependencies(static, dynamic) ==
    [m \in DOMAIN static \cup DOMAIN dynamic |-> Get(static, m) \cup Get(dynamic, m)]

\* _classify_dependencies: one DependencyInfo per imported module (standard
\* library modules only with include_stdlib); required_by receives the
\* importers; sub_dependencies is never written.
ClassifyDependencies(deps, stdlib) ==
    LET all_modules == UNION {deps[p] : p \in DOMAIN deps}
        kept        == {m \in all_modules : stdlib \/ m \notin StdlibModules}
    IN [m \in kept |->
           [required_by      |-> {p \in DOMAIN deps : m \in deps[p]},
            sub_dependencies |-> {},
            is_builtin       |-> m \in StdlibModules]]

(***************************************************************************)
(* _detect_circular_dependencies.  graph[name] = list(info.required_by);   *)
(* find_cycles runs dfs from every key not visited yet.  The state of the  *)
(* search is [visited, cycles]; rec_stack holds the nodes of path before   *)
(* its last element.  prio gives the order in which the elements of a      *)
(* required_by set are listed.                                             *)
(***************************************************************************)
Neighbors(graph, prio, node) ==
    SelectSeq(prio, LAMBDA x : node \in DOMAIN graph /\ x \in graph[node].required_by)

RECURSIVE dfs(_, _, _, _, _)
RECURSIVE dfs_each(_, _, _, _, _)
dfs(graph, prio, node, path, st) ==
    LET rec_stack == {path[k] : k \in 1..(Len(path) - 1)}
    IN IF node \in rec_stack
       THEN LET cycle_start == CHOOSE k \in DOMAIN path :
                                   /\ path[k] = node
                                   /\ \A j \in 1..(k - 1) : path[j] # node
            IN [st EXCEPT !.cycles =
                   Append(@, SubSeq(path, cycle_start, Len(path)) \o <<node>>)]
       ELSE IF node \in st.visited
       THEN st
       ELSE dfs_each(graph, prio, Neighbors(graph, prio, node), path,
                     [st EXCEPT !.visited = @ \cup {node}])

dfs_each(graph, prio, neighbors, path, st) ==
    IF neighbors = <<>> THEN st
    ELSE dfs_each(graph, prio, Tail(neighbors), path,
                  dfs(graph, prio, Head(neighbors), Append(path, Head(neighbors)), st))

RECURSIVE find_cycles(_, _, _, _)
find_cycles(graph, prio, keys, st) ==
    IF keys = <<>> THEN st.cycles
    ELSE find_cycles(graph, prio, Tail(keys),
                     IF Head(keys) \in st.visited THEN st
                     ELSE dfs(graph, prio, Head(keys), <<Head(keys)>>, st))

detect_circular_dependencies(graph, keys, prio) ==
    find_cycles(graph, prio, keys, [visited |-> {}, cycles |-> <<>>])

(***************************************************************************)
(* analyze_dependencies, pass by pass.                                     *)
(***************************************************************************)
TraceOutcomes == {"exit0", "nonzero", "timeout", "not_started"}

AnalyzeFrame ==
    UNCHANGED <<selVars, engVars, cmpVars, pipeVars, proVars, obfVars, scoVars,
                estVars, tailVars>>

StaticPass ==
    /\ apc = "start"
    /\ static_deps' = StaticAnalysis(program)
    /\ apc' = "static"
    /\ UNCHANGED <<program, include_stdlib, trace, dynamic_deps, classified,
                   circular, warnings>>
    /\ AnalyzeFrame

DynamicPass ==
    /\ apc = "static"
    /\ \E outcome \in TraceOutcomes, traced \in {{}, {"a", "os"}} :
          /\ trace' = outcome
          /\ dynamic_deps' = DynamicAnalysis(outcome, traced)
    /\ apc' = "dynamic"
    /\ UNCHANGED <<program, include_stdlib, static_deps, classified, circular,
                   warnings>>
    /\ AnalyzeFrame

ClassifyPass ==
    /\ apc = "dynamic"
    /\ classified' = ClassifyDependencies(
                         MergeDependencies(static_deps, dynamic_deps), include_stdlib)
    /\ apc' = "classified"
    /\ UNCHANGED <<program, include_stdlib, trace, static_deps, dynamic_deps,
                   circular, warnings>>
    /\ AnalyzeFrame

\* The cycle detection and the construction of the AnalysisResult, which is
\* given no warnings argument.
DetectAndReturn ==
    /\ apc = "classified"
    /\ \E keys \in Orderings(DOMAIN classified) :
          \E prio \in Orderings(LocalFiles) :
             circular' = detect_circular_dependencies(
                             classified, keys, prio \o <<"__main__">>)
    /\ warnings' = <<>>
    /\ apc' = "returned"
    /\ UNCHANGED <<program, include_stdlib, trace, static_deps, dynamic_deps,
                   classified>>
    /\ AnalyzeFrame

\* The script imports any of the modules; the local modules import local
\* files (each other, themselves, the script).
Programs ==
    {prog \in [LocalFiles -> SUBSET ModuleNames] :
        \A f \in LocalFiles \ {Root} : prog[f] \subseteq LocalFiles}

(***************************************************************************)
(* Specification SpecAnalyze: one analyze_dependencies call on every       *)
(* program over the local files.                                           *)
(***************************************************************************)
AnalyzeInit ==
    /\ SelIdle
    /\ EngIdle
    /\ CmpIdle
    /\ PipeIdle
    /\ ProIdle
    /\ ObfIdle
    /\ ScoIdle
    /\ EstIdle
    /\ TailIdle
    /\ apc = "start"
    /\ program \in Programs
    /\ include_stdlib \in BOOLEAN
    /\ trace = "None"
    /\ static_deps = <<>>
    /\ dynamic_deps = <<>>
    /\ classified = <<>>
    /\ circular = <<>>
    /\ warnings = <<>>

AnalyzeNext == StaticPass \/ DynamicPass \/ ClassifyPass \/ DetectAndReturn

SpecAnalyze == AnalyzeInit /\ [][AnalyzeNext]_vars

(***************************************************************************)
(* Claims about the analysis.                                              *)
(***************************************************************************)
Returned == apc = "returned"

\* C15: in every returned graph, every name in a required_by set and every
\* name in a sub_dependencies set is a key of the graph, and the two edge
\* sets are mutually inverse.
C15_GraphClosedAndInverse ==
    Returned =>
        /\ \A c \in DOMAIN classified :
              /\ classified[c].required_by \subseteq DOMAIN classified
              /\ classified[c].sub_dependencies \subseteq DOMAIN classified
        /\ \A p, c \in DOMAIN classified :
              p \in classified[c].required_by <=> c \in classified[p].sub_dependencies

\* The edges of the graph the detection walks: from a key to each member of
\* its required_by.
Edge(u, v) == u \in DOMAIN classified /\ v \in classified[u].required_by

Position(x) == CHOOSE i \in DOMAIN NodeOrder : NodeOrder[i] = x

\* The elementary cycles of the graph, each once: as the sequence of its
\* nodes starting at its first node in NodeOrder.
ElementaryCycles ==
    {p \in UNION {[1..n -> DOMAIN classified] : n \in 1..Cardinality(DOMAIN classified)} :
        /\ \A i, j \in DOMAIN p : i # j => p[i] # p[j]
        /\ \A i \in DOMAIN p : Position(p[1]) <= Position(p[i])
        /\ \A i \in DOMAIN p : Edge(p[i], p[(i % Len(p)) + 1])}

\* C16: the detection reports exactly as many cycles as the graph has
\* elementary cycles, and an empty list exactly when the graph is acyclic.
C16_ReportsEveryCycleOnce ==
    Returned =>
        /\ Len(circular) = Cardinality(ElementaryCycles)
        /\ circular = <<>> <=> ElementaryCycles = {}

\* C17: when the subprocess of the dynamic pass exits non-zero, times out or
\* cannot be started, the dynamic pass contributes nothing, the graph is the
\* one the static pass yields, and the report carries a warning.
C17_TraceFailureWarns ==
    (Returned /\ trace # "exit0") =>
        /\ dynamic_deps = <<>>
        /\ classified = ClassifyDependencies(static_deps, include_stdlib)
        /\ warnings # <<>>

\* C29: every reported cycle starts and ends with the re-encountered node,
\* every pair of consecutive elements is an edge of the graph, and no node
\* other than the closing one is repeated; two modules that import each
\* other yield exactly one reported cycle, holding exactly those two.
C29_CyclesAreClosedPaths ==
    Returned =>
        /\ \A k \in DOMAIN circular :
              LET cycle == circular[k]
                  last  == Len(cycle)
              IN /\ last >= 2
                 /\ cycle[1] = cycle[last]
                 /\ \A i \in 1..(last - 1) : Edge(cycle[i], cycle[i + 1])
                 /\ \A i, j \in 1..(last - 1) : i # j => cycle[i] # cycle[j]
        /\ \A u, v \in DOMAIN classified :
              (/\ u # v
               /\ DOMAIN classified = {u, v}
               /\ classified[u].required_by = {v}
               /\ classified[v].required_by = {u}) =>
                  /\ Len(circular) = 1
                  /\ {circular[1][i] : i \in DOMAIN circular[1]} = {u, v}

(***************************************************************************)
(* The protect stage: ProtectionManager.protect_code.                      *)
(***************************************************************************)
\* class ProtectionLevel, class ObfuscationMethod
ProtectionLevel == <<"basic", "intermediate", "advanced", "maximum">>

ObfuscationMethod ==
    <<"pyarmor", "custom", "bytecode", "string_encoding", "control_flow">>

\* self.protectors: the methods that have a backend.
ProtectorOrder == <<"pyarmor", "custom", "bytecode">>

\* The default methods of a level: the if/elif chain of __post_init__, whose
\* else branch is MAXIMUM.
LevelMethods(lvl) ==
    IF lvl = "basic" THEN <<"bytecode">>
    ELSE IF lvl = "intermediate" THEN <<"custom", "string_encoding">>
    ELSE IF lvl = "advanced" THEN <<"custom", "string_encoding", "control_flow">>
    ELSE <<"pyarmor", "custom", "bytecode", "string_encoding", "control_flow">>

\* A __post_init__ that lets the level decide whatever the caller listed.
post_init_level_only(lvl, given) == LevelMethods(lvl)

\* ProtectionOptions.__post_init__: "if not self.methods:" fills the list in
\* from the level; a non-empty list is left alone.
post_init(lvl, given) == IF given = <<>> THEN LevelMethods(lvl) ELSE given

\* Paths are sequences of components; a protected file is the path of its
\* input with the backend's suffix appended.
SourceFile == <<"app.py">>

SourceDir == <<"pkg">>

MissingSource == <<"missing.py">>

\* The .py files os.walk finds in the directory.
PackageFiles == {"x.py", "y.py"}

exists(path) == path # MissingSource

isfile(path) == path # SourceDir

\* ".protected" (PyArmorProtector), ".obfuscated" (CustomObfuscator),
\* ".encrypted" (BytecodeEncryptor)
Suffix(m) ==
    IF m = "pyarmor" THEN ".protected"
    ELSE IF m = "custom" THEN ".obfuscated" ELSE ".encrypted"

ProtectionSuccess(files, ms) ==
    [kind |-> "returned", success |-> TRUE, protected_files |-> files,
     methods_applied |-> ms, error_message |-> "None"]

ProtectionFailure(message) ==
    [kind |-> "returned", success |-> FALSE, protected_files |-> <<>>,
     methods_applied |-> <<>>, error_message |-> message]

\* ProtectionLevel(level) is evaluated before the try block.
ProtectionRaised(exception) ==
    [kind |-> "raised", success |-> FALSE, protected_files |-> <<>>,
     methods_applied |-> <<>>, error_message |-> exception]

\* protected_files of a backend run on a directory, in the order of the walk.
\* PyArmorProtector copies to dirname(source_path)/<rel>.protected, the other
\* two write next to each file.
WalkOutput(m, path, walk) ==
    [i \in DOMAIN walk |->
        [original |-> path \o <<walk[i]>>,
         protected |-> IF m = "pyarmor" THEN <<walk[i], Suffix(m)>>
                       ELSE path \o <<walk[i], Suffix(m)>>]]

\* What the backends can do: "ok", "error" (non-zero exit code or an
\* exception), and for PyArmor a zero exit code with no file in output_dir.
BackendOutcomes(m) ==
    IF m = "pyarmor" THEN {"ok", "no_output", "error"} ELSE {"ok", "error"}

\* ProtectionBackend.protect of the three backends.
backend_protect(m, path, outcome, walk) ==
    IF outcome = "error" THEN ProtectionFailure("backend error")
    ELSE IF outcome = "no_output" THEN ProtectionSuccess(<<>>, <<m>>)
    ELSE IF isfile(path)
         THEN ProtectionSuccess(
                  <<[original |-> path, protected |-> path \o <<Suffix(m)>>]>>, <<m>>)
         ELSE ProtectionSuccess(WalkOutput(m, path, walk), <<m>>)

Keys(d) == {d[i].original : i \in DOMAIN d}

\* dict.update on a dict kept in insertion order.
DictUpdate(d, u) ==
    [i \in DOMAIN d |->
        IF d[i].original \in Keys(u)
        THEN u[CHOOSE j \in DOMAIN u : u[j].original = d[i].original]
        ELSE d[i]]
    \o SelectSeq(u, LAMBDA e : e.original \notin Keys(d))

ProtectFrame ==
    UNCHANGED <<selVars, engVars, cmpVars, pipeVars, anaVars, obfVars, scoVars,
                estVars, tailVars>>

\* The validation, the conversion of the level and ProtectionOptions(...).
ProtectStart ==
    /\ xpc = "start"
    /\ IF ~exists(source_path)
       THEN /\ presult' = ProtectionFailure("Fichier/dossier non trouve")
            /\ xpc' = "returned"
            /\ UNCHANGED <<methods, next_method, current_path>>
       ELSE IF level \notin Range(ProtectionLevel)
       THEN /\ presult' = ProtectionRaised("ValueError")
            /\ xpc' = "returned"
            /\ UNCHANGED <<methods, next_method, current_path>>
       ELSE /\ methods' = post_init(level, explicit_methods)
            /\ current_path' = source_path
            /\ next_method' = 1
            /\ xpc' = "loop"
            /\ UNCHANGED presult
    /\ UNCHANGED <<level, explicit_methods, available_protectors, source_path,
                   all_protected_files, all_methods, applied>>
    /\ ProtectFrame

\* One turn of "for method in options.methods".
ApplyProtection ==
    /\ xpc = "loop"
    /\ next_method <= Len(methods)
    /\ LET m == methods[next_method] IN
       IF m \notin available_protectors
       THEN /\ next_method' = next_method + 1
            /\ UNCHANGED <<xpc, current_path, all_protected_files, all_methods,
                           applied, presult>>
       ELSE \E outcome \in BackendOutcomes(m), walk \in Orderings(PackageFiles) :
            LET result == backend_protect(m, current_path, outcome, walk) IN
            /\ applied' = Append(applied, [index |-> next_method, method |-> m,
                                           input |-> current_path,
                                           output |-> result.protected_files])
            /\ IF result.success
               THEN /\ all_protected_files' =
                           DictUpdate(all_protected_files, result.protected_files)
                    /\ all_methods' = all_methods \o result.methods_applied
                    /\ current_path' =
                           IF result.protected_files # <<>>
                           THEN result.protected_files[1].protected
                           ELSE current_path
                    /\ next_method' = next_method + 1
                    /\ UNCHANGED <<xpc, presult>>
               ELSE /\ presult' = result
                    /\ xpc' = "returned"
                    /\ UNCHANGED <<current_path, all_protected_files, all_methods,
                                   next_method>>
    /\ UNCHANGED <<level, explicit_methods, available_protectors, source_path, methods>>
    /\ ProtectFrame

\* The return after the loop.
ProtectReturn ==
    /\ xpc = "loop"
    /\ next_method > Len(methods)
    /\ presult' = ProtectionSuccess(all_protected_files, all_methods)
    /\ xpc' = "returned"
    /\ UNCHANGED <<level, explicit_methods, available_protectors, source_path,
                   methods, next_method, current_path, all_protected_files,
                   all_methods, applied>>
    /\ ProtectFrame

\* The level argument: the four levels and a string that is none of them.
LevelInputs == Range(ProtectionLevel) \cup {"paranoid"}

\* The methods keyword: absent, or a list of the caller's.
MethodLists ==
    {ms \in {<<>>, <<"custom", "bytecode">>, <<"bytecode", "custom">>,
             <<"pyarmor", "custom">>, <<"string_encoding">>} :
        Range(ms) \subseteq Range(ObfuscationMethod)}

\* CustomObfuscator.is_available is always True; PyArmor and the crypto
\* library may be missing.
ProtectorAvailabilities ==
    {{"custom"} \cup S : S \in SUBSET (Range(ProtectorOrder) \ {"custom"})}

ProtectInit ==
    /\ SelIdle
    /\ EngIdle
    /\ CmpIdle
    /\ PipeIdle
    /\ AnaIdle
    /\ ObfIdle
    /\ ScoIdle
    /\ EstIdle
    /\ TailIdle
    /\ xpc = "start"
    /\ level \in LevelInputs
    /\ explicit_methods \in MethodLists
    /\ available_protectors \in ProtectorAvailabilities
    /\ source_path \in {SourceFile, SourceDir, MissingSource}
    /\ methods = <<>>
    /\ next_method = 0
    /\ current_path = <<>>
    /\ all_protected_files = <<>>
    /\ all_methods = <<>>
    /\ applied = <<>>
    /\ presult = PendingProtection

ProtectNext == ProtectStart \/ ApplyProtection \/ ProtectReturn

SpecProtect == ProtectInit /\ [][ProtectNext]_vars

(***************************************************************************)
(* Claims about the protect stage.                                         *)
(***************************************************************************)
\* The files a backend call read, and the files it produced.
Inputs(call) ==
    IF isfile(call.input) THEN {call.input}
    ELSE {call.input \o <<f>> : f \in PackageFiles}

Outputs(call) == {call.output[i].protected : i \in DOMAIN call.output}

\* C18: the backends run in the order of the method list, and each backend
\* after the first reads what the previous backend produced, for a single
\* file and for a directory of several files alike.
C18_EachBackendConsumesPrevious ==
    /\ \A i \in DOMAIN applied : methods[applied[i].index] = applied[i].method
    /\ \A i, j \in DOMAIN applied : i < j => applied[i].index < applied[j].index
    /\ \A i \in DOMAIN applied :
          (i > 1 /\ Outputs(applied[i - 1]) # {}) =>
              Inputs(applied[i]) = Outputs(applied[i - 1])

OptionsCreated == xpc \in {"loop", "returned"} /\ next_method > 0

\* C19: without an explicit method list the level decides (basic: bytecode;
\* intermediate: custom, string_encoding; advanced: custom, string_encoding,
\* control_flow; maximum: pyarmor, custom, bytecode, string_encoding,
\* control_flow); a non-empty explicit list is kept whatever the level.
C19_LevelDecidesUnlessExplicit ==
    OptionsCreated =>
        /\ explicit_methods # <<>> => methods = explicit_methods
        /\ (explicit_methods = <<>> /\ level = "basic") => methods = <<"bytecode">>
        /\ (explicit_methods = <<>> /\ level = "intermediate") =>
               methods = <<"custom", "string_encoding">>
        /\ (explicit_methods = <<>> /\ level = "advanced") =>
               methods = <<"custom", "string_encoding", "control_flow">>
        /\ (explicit_methods = <<>> /\ level = "maximum") =>
               methods = <<"pyarmor", "custom", "bytecode", "string_encoding",
                           "control_flow">>

\* An explicit list that differs from the level's, applied to the end.
C19_ExplicitOverridesWitness ==
    /\ xpc = "returned"
    /\ presult.success
    /\ level = "basic"
    /\ explicit_methods = <<"pyarmor", "custom">>
    /\ methods = explicit_methods
    /\ all_methods = <<"pyarmor", "custom">>

\* C27: protect_code returns a success only if at least one backend was
\* applied; when no requested method has an available backend the result is
\* not a success with empty methods_applied and empty protected_files.
C27_SuccessMeansApplied ==
    (xpc = "returned" /\ presult.success) =>
        /\ applied # <<>>
        /\ ~(presult.methods_applied = <<>> /\ presult.protected_files = <<>>)

(***************************************************************************)
(* Name rewriting: CustomObfuscator._obfuscate_file and the NameObfuscator *)
(* of _obfuscate_names.  A file is the sequence of its identifier          *)
(* occurrences in the order the transformer visits them; an occurrence is  *)
(* [kind, id], kind being the AST node that holds it.  The string,         *)
(* control-flow and anti-debug transformations add nodes and leave the     *)
(* identifiers of the existing ones alone.                                 *)
(***************************************************************************)
\* ast.FunctionDef.name, ast.ClassDef.name, ast.Name in Store and in Load
\* context, ast.arg.arg
NodeKinds == {"FunctionDef", "ClassDef", "Store", "Load", "arg"}

Identifiers == {"total", "_cache", "__init__", "print"}

\* The longest file.
MaxOccurrences == 2

\* name.startswith('__'), name.endswith('__'), name.startswith('_')
StartsWithDunder(id) == id \in {"__init__"}

EndsWithDunder(id) == id \in {"__init__"}

StartsWithUnderscore(id) == id \in {"_cache", "__init__"}

\* set(dir(__builtins__)) | set(keyword.kwlist), on Identifiers.
\* __builtins__ is the builtins module when the module runs as __main__ and
\* its __dict__ when the module is imported, where dir() lists the attributes
\* of dict: with the former "print" is in the set, with the latter it is not.
BuiltinNameSets == {{"print"}, {}}

\* '_' + 8 random letters and digits.  Nothing keeps two draws apart.
FreshNames == {"_aZ3kQ9xB", "_T0mW4rYc"}

\* Whether the visitor of the node's kind gives the node a new name.
Renames(node, builtins) ==
    IF node.kind = "FunctionDef"
    THEN ~StartsWithDunder(node.id) \/ ~EndsWithDunder(node.id)
    ELSE IF node.kind = "ClassDef" THEN ~StartsWithUnderscore(node.id)
    ELSE IF node.kind = "Store"
    THEN node.id \notin builtins /\ ~StartsWithDunder(node.id)
    ELSE FALSE

ObfuscateFrame ==
    UNCHANGED <<selVars, engVars, cmpVars, pipeVars, anaVars, proVars, scoVars,
                estVars, tailVars>>

\* open(file_path).read() and ast.parse(source_code), either of which can raise.
ParseFile ==
    /\ opc = "start"
    /\ \E ok \in BOOLEAN :
         IF ok
         THEN /\ tree' = source_code
              /\ opc' = IF obfuscate_names THEN "names" ELSE "unparse"
         ELSE /\ opc' = "raised"
              /\ UNCHANGED tree
    /\ UNCHANGED <<source_code, obfuscate_names, builtin_names, visited, name_map,
                   written>>
    /\ ObfuscateFrame

\* NameObfuscator visiting the next node: visit_FunctionDef, visit_ClassDef,
\* visit_Name, with _generate_name.
VisitNode ==
    /\ opc = "names"
    /\ visited < Len(tree)
    /\ LET node == tree[visited + 1] IN
       IF ~Renames(node, builtin_names)
       THEN UNCHANGED <<tree, name_map>>
       ELSE IF node.id \in DOMAIN name_map
       THEN /\ tree' = [tree EXCEPT ![visited + 1].id = name_map[node.id]]
            /\ UNCHANGED name_map
       ELSE \E new_name \in FreshNames \ builtin_names :
            /\ name_map' = name_map @@ (node.id :> new_name)
            /\ tree' = [tree EXCEPT ![visited + 1].id = new_name]
    /\ visited' = visited + 1
    /\ UNCHANGED <<opc, source_code, obfuscate_names, builtin_names, written>>
    /\ ObfuscateFrame

\* The unparsing of the tree and the write of <file_path>.obfuscated, which
\* can raise.
WriteFile ==
    /\ \/ opc = "unparse"
       \/ opc = "names" /\ visited = Len(tree)
    /\ \E ok \in BOOLEAN :
         IF ok
         THEN /\ written' = tree
              /\ opc' = "written"
         ELSE /\ opc' = "raised"
              /\ UNCHANGED written
    /\ UNCHANGED <<source_code, obfuscate_names, builtin_names, tree, visited,
                   name_map>>
    /\ ObfuscateFrame

Occurrences == [kind : NodeKinds, id : Identifiers]

SourceFiles == UNION {[1..n -> Occurrences] : n \in 0..MaxOccurrences}

ObfuscateInit ==
    /\ SelIdle
    /\ EngIdle
    /\ CmpIdle
    /\ PipeIdle
    /\ AnaIdle
    /\ ProIdle
    /\ ScoIdle
    /\ EstIdle
    /\ TailIdle
    /\ opc = "start"
    /\ source_code \in SourceFiles
    /\ obfuscate_names \in BOOLEAN
    /\ builtin_names \in BuiltinNameSets
    /\ tree = <<>>
    /\ visited = 0
    /\ name_map = <<>>
    /\ written = <<>>

ObfuscateNext == ParseFile \/ VisitNode \/ WriteFile

SpecObfuscate == ObfuscateInit /\ [][ObfuscateNext]_vars

(***************************************************************************)
(* Claims about the name rewriting.                                        *)
(***************************************************************************)
\* C20: every occurrence of a renamed identifier (definition, assignment,
\* read, call) carries the identifier's new name in the file written, so no
\* renamed identifier is still referenced by its old name.
C20_EveryOccurrenceRenamed ==
    opc = "written" =>
        \A i \in DOMAIN source_code :
            source_code[i].id \in DOMAIN name_map =>
                written[i].id = name_map[source_code[i].id]

(***************************************************************************)
(* Scoring: get_score of every backend, called on its own.  The compile    *)
(* and compress scores are the operators the schedulers use; the protector *)
(* scores follow.                                                          *)
(***************************************************************************)
\* min(100, score): the protectors have no lower clamp.
Min100(score) == IF score > 100 THEN 100 ELSE score

PyArmorScore(po) ==
    Min100(90 + (IF po.level \in {"advanced", "maximum"} THEN 10 ELSE 0))

CustomObfuscatorScore(po) ==
    Min100(75 + (IF po.obfuscate_names THEN 5 ELSE 0)
              + (IF po.obfuscate_strings THEN 5 ELSE 0)
              + (IF po.add_anti_debug THEN 10 ELSE 0))

BytecodeEncryptorScore(po, crypto) ==
    IF ~crypto THEN 0
    ELSE Min100(80 + (IF po.encrypt_bytecode THEN 15 ELSE 0))

ProtectorScore(p, po, crypto) ==
    CASE p = "pyarmor"  -> PyArmorScore(po)
      [] p = "custom"   -> CustomObfuscatorScore(po)
      [] p = "bytecode" -> BytecodeEncryptorScore(po, crypto)

\* The most get_score calls made in a run.
MaxScoreCalls == 2

ScoreFrame ==
    UNCHANGED <<selVars, engVars, cmpVars, pipeVars, anaVars, proVars, obfVars,
                estVars, tailVars, score_stage, protection_options,
                crypto_available>>

\* One get_score call: its backend, its arguments and what it returned.
ScoreCall(backend, args, score) ==
    [backend |-> backend, args |-> args, score |-> score]

\* CompilerBackend.get_score(options) of one of the three compilers.
GetCompilerScore ==
    /\ score_stage = "compile"
    /\ Len(score_log) < MaxScoreCalls
    /\ \E c \in CompilerType :
         score_log' = Append(score_log,
                             ScoreCall(c, options, CompilerScore(c, options)))
    /\ ScoreFrame

\* CompressionBackend.get_score(file_path, options) of one of the four
\* compressors; the score depends on _get_file_info(file_path) only.
GetCompressorScore ==
    /\ score_stage = "compress"
    /\ Len(score_log) < MaxScoreCalls
    /\ \E m \in Range(CompressorOrder) :
         score_log' = Append(score_log,
                             ScoreCall(m, file_info, CompressorScore(m, file_info)))
    /\ ScoreFrame

\* A protector that keeps its score on the instance between two calls.
GetProtectorScoreKeepingState ==
    /\ score_stage = "protect"
    /\ Len(score_log) < MaxScoreCalls
    /\ \E p \in Range(ProtectorOrder) :
         LET kept == IF score_log = <<>> THEN 0
                     ELSE score_log[Len(score_log)].score IN
         score_log' = Append(score_log,
               ScoreCall(p, protection_options,
                         kept + ProtectorScore(p, protection_options,
                                               crypto_available)))
    /\ ScoreFrame

\* ProtectionBackend.get_score(source_path, options) of one of the three
\* protectors.
GetProtectorScore ==
    /\ score_stage = "protect"
    /\ Len(score_log) < MaxScoreCalls
    /\ \E p \in Range(ProtectorOrder) :
         score_log' = Append(score_log,
               ScoreCall(p, protection_options,
                         ProtectorScore(p, protection_options, crypto_available)))
    /\ ScoreFrame

ProtectionOptionSets ==
    [level : Range(ProtectionLevel), obfuscate_names : BOOLEAN,
     obfuscate_strings : BOOLEAN, encrypt_bytecode : BOOLEAN,
     add_anti_debug : BOOLEAN]

ScoreInit ==
    /\ EngIdle
    /\ CmpIdle
    /\ PipeIdle
    /\ AnaIdle
    /\ ProIdle
    /\ ObfIdle
    /\ EstIdle
    /\ TailIdle
    /\ stage = "idle"
    /\ available_compilers = {}
    /\ available_compressors = {}
    /\ method = "auto"
    /\ selected = "pending"
    /\ score_log = <<>>
    /\ \/ /\ score_stage = "compile"
          /\ options \in {o \in CompilationOptions : o.preferred_compiler = "None"}
          /\ file_info = NoFileInfo
          /\ protection_options = NoProtectionOptions
          /\ crypto_available = FALSE
       \/ /\ score_stage = "compress"
          /\ options = NoOptions
          /\ file_info \in FileInfos
          /\ protection_options = NoProtectionOptions
          /\ crypto_available = FALSE
       \/ /\ score_stage = "protect"
          /\ options = NoOptions
          /\ file_info = NoFileInfo
          /\ protection_options \in ProtectionOptionSets
          /\ crypto_available \in BOOLEAN

ScoreNext == GetCompilerScore \/ GetCompressorScore \/ GetProtectorScore

SpecScore == ScoreInit /\ [][ScoreNext]_vars

C23_CompileScores ==
    \A i \in DOMAIN score_log :
        LET call == score_log[i]
            optimize == IF options.optimize THEN 1 ELSE 0
            obfuscation == IF options.obfuscate \/ options.encrypt_bytecode
                           THEN 1 ELSE 0
        IN /\ call.backend = "pyinstaller" => call.score = 70 + 15 + 10 - 5 * optimize
           /\ call.backend = "nuitka" =>
                  call.score = 85 - 5 + 10 * optimize + 5 * obfuscation
           /\ call.backend = "cx_freeze" => call.score = 60 + 5 - 10 * obfuscation

\* Nuitka scored for a job with optimize and an obfuscation flag.
C23_NuitkaBonusWitness ==
    /\ score_stage = "compile"
    /\ options.optimize
    /\ options.encrypt_bytecode
    /\ \E i \in DOMAIN score_log :
          score_log[i].backend = "nuitka" /\ score_log[i].score = 95

(***************************************************************************)
(* Module information and size estimation: _get_module_info and            *)
(* _estimate_sizes, for one node of the graph.                             *)
(***************************************************************************)
\* importlib.util.find_spec: no spec, a spec without origin, an origin
\* outside or inside site-packages, or an exception.
FindSpecOutcomes == {"None", "no_origin", "local", "site_packages", "raises"}

ModuleFacts ==
    [in_stdlib : BOOLEAN, find_spec : FindSpecOutcomes, file_exists : BOOLEAN,
     is_package : BOOLEAN, getsize_raises : BOOLEAN, getsize : {0, 2 * KiB},
     directory_size : {0, 4 * KiB}]

\* _get_module_info
get_module_info(facts) ==
    IF facts.in_stdlib THEN [NewDependencyInfo EXCEPT !.is_builtin = TRUE]
    ELSE IF facts.find_spec \in {"None", "raises", "no_origin"} THEN NewDependencyInfo
    ELSE IF facts.find_spec = "local"
    THEN [NewDependencyInfo EXCEPT !.location = "origin", !.is_local = TRUE]
    ELSE [NewDependencyInfo EXCEPT !.location = "origin", !.is_third_party = TRUE]

\* The body of the loop of _estimate_sizes.
estimate_size(i, facts) ==
    IF i.location # "None" /\ facts.file_exists
    THEN IF facts.getsize_raises THEN 1024
         ELSE facts.getsize + (IF facts.is_package THEN facts.directory_size ELSE 0)
    ELSE IF i.is_builtin THEN 1024
    ELSE IF i.is_third_party THEN 50 * 1024
    ELSE 5 * 1024

EstimateFrame ==
    UNCHANGED <<selVars, engVars, cmpVars, pipeVars, anaVars, proVars, obfVars,
                scoVars, tailVars, module_facts>>

GetModuleInfo ==
    /\ epc = "start"
    /\ info' = get_module_info(module_facts)
    /\ epc' = "classified"
    /\ EstimateFrame

EstimateSize ==
    /\ epc = "classified"
    /\ info' = [info EXCEPT !.size_estimate = estimate_size(info, module_facts)]
    /\ epc' = "estimated"
    /\ EstimateFrame

EstimateInit ==
    /\ SelIdle
    /\ EngIdle
    /\ CmpIdle
    /\ PipeIdle
    /\ AnaIdle
    /\ ProIdle
    /\ ObfIdle
    /\ ScoIdle
    /\ TailIdle
    /\ epc = "start"
    /\ module_facts \in ModuleFacts
    /\ info = NewDependencyInfo

EstimateNext == GetModuleInfo \/ EstimateSize

SpecEstimate == EstimateInit /\ [][EstimateNext]_vars

(***************************************************************************)
(* Claims about the size estimation.                                       *)
(***************************************************************************)
HasResolvedPath == info.location # "None" /\ module_facts.file_exists

\* C24: a node without a resolved filesystem path is estimated at 1 KiB if
\* builtin, 50 KiB if third-party, 5 KiB if local, and 0 if it is none of
\* the three.
C24_DefaultEstimates ==
    (epc = "estimated" /\ ~HasResolvedPath) =>
        info.size_estimate =
            IF info.is_builtin THEN 1 * KiB
            ELSE IF info.is_third_party THEN 50 * KiB
            ELSE IF info.is_local THEN 5 * KiB
            ELSE 0

(***************************************************************************)
(* Batch compression: CompressionHandler.batch_compress.                   *)
(***************************************************************************)
MaxFiles == 3

ExeNames == {"a.exe", "b.exe"}

FileLists == UNION {[1..n -> ExeNames] : n \in 0..MaxFiles}

\* The fields of the CompressionOptions dataclass: the keys of its __dict__.
CompressionOptionsFields ==
    {"method", "level", "preserve_resources", "backup_original", "upx_ultra_brute",
     "upx_compress_icons", "upx_strip_relocs", "lzma_preset", "lzma_check",
     "brotli_quality", "brotli_window_bits", "custom_algorithm", "exclude_patterns"}

BaseCompressionOptions == [method : CompressionMethod, backup_original : BOOLEAN]

\* The named parameters of compress_executable after self; it also takes
\* **kwargs.
CompressExecutableParams == <<"exe_path", "method">>

\* Binding a call compress_executable(<npositional arguments>, **keywords):
\* a keyword naming a parameter already filled by position is a TypeError,
\* raised by the call itself, before any coroutine exists.
BindingRaises(npositional, keywords) ==
    \E i \in 1..npositional : CompressExecutableParams[i] \in keywords

\* What one compress_executable coroutine hands to gather.
TaskOutcomes == {"success", "failure", "exception"}

\* The loop over the gathered results: an exception becomes a failure result.
FinalCompressionResult(outcome) == [success |-> outcome = "success"]

\* batch_compress: one call self.compress_executable(file_path,
\* base_options.method, **base_options.__dict__) per file, then gather.
BatchCompress ==
    /\ bpc = "start"
    /\ IF batch_files # <<>> /\ BindingRaises(2, CompressionOptionsFields)
       THEN /\ bpc' = "raised"
            /\ batch_results' = <<>>
       ELSE \E outcomes \in [DOMAIN batch_files -> TaskOutcomes] :
               /\ bpc' = "returned"
               /\ batch_results' =
                      [i \in DOMAIN batch_files |-> FinalCompressionResult(outcomes[i])]
    /\ UNCHANGED <<selVars, engVars, cmpVars, pipeVars, anaVars, proVars, obfVars,
                   scoVars, estVars, staVars, batch_files, base_options>>

BatchCompressInit ==
    /\ SelIdle
    /\ EngIdle
    /\ CmpIdle
    /\ PipeIdle
    /\ AnaIdle
    /\ ProIdle
    /\ ObfIdle
    /\ ScoIdle
    /\ EstIdle
    /\ StaIdle
    /\ bpc = "start"
    /\ batch_files \in FileLists
    /\ base_options \in BaseCompressionOptions
    /\ batch_results = <<>>

BatchCompressNext == BatchCompress

SpecBatchCompress == BatchCompressInit /\ [][BatchCompressNext]_vars

(***************************************************************************)
(* Claims about batch compression.                                         *)
(***************************************************************************)
\* C28: for a non-empty list of files, batch_compress does not raise and
\* returns exactly one result per input file.
C28_OneResultPerFile ==
    (bpc \in {"returned", "raised"} /\ batch_files # <<>>) =>
        /\ bpc = "returned"
        /\ Len(batch_results) = Len(batch_files)

(***************************************************************************)
(* The static pass, call by call: _static_analysis and its analyze_file.   *)
(* A path is the module it names and whether the string is in the form     *)
(* str(Path(...)) yields ('main.py') or not ('./main.py').                 *)
(***************************************************************************)
ScriptPaths == {[module |-> Root, normal |-> n] : n \in BOOLEAN}

\* _resolve_local_import: str() of a Path built from Path(current_file).parent,
\* for a module that has a file next to the script.
resolve_local_import(module_name) ==
    IF module_name \in LocalFiles
    THEN [module |-> module_name, normal |-> TRUE]
    ELSE NoScriptPath

\* One analyze_file call: at its entry, or in its loop over visitor.imports.
Call(file_path, parent) ==
    [file_path |-> file_path, parent |-> parent, at |-> "entry", pending |-> {}]

Top == call_stack[Len(call_stack)]

\* A call returns: to its caller's loop, or out of _static_analysis.
ReturnFromCall ==
    /\ call_stack' = SubSeq(call_stack, 1, Len(call_stack) - 1)
    /\ spc' = IF Len(call_stack) = 1 THEN "returned" ELSE "running"

StaticFrame ==
    UNCHANGED <<selVars, engVars, cmpVars, pipeVars, anaVars, proVars, obfVars,
                scoVars, estVars, bcVars, sources, unparsable, script_path, deep>>

\* analyze_file(script_path)
AnalyzeScript ==
    /\ spc = "start"
    /\ spc' = "running"
    /\ call_stack' = <<Call(script_path, "None")>>
    /\ UNCHANGED <<analyzed_files, parse_log, dependencies>>
    /\ StaticFrame

\* analyze_file up to its loop: the visited check, the read, ast.parse (its
\* exception logged by the except clause) and the edges of the file.
AnalyzeFile ==
    /\ spc = "running"
    /\ call_stack # <<>>
    /\ Top.at = "entry"
    /\ LET file_path      == Top.file_path
           current_module == IF Top.parent # "None" THEN Top.parent
                             ELSE file_path.module
           imports        == sources[file_path.module]
       IN IF file_path \in analyzed_files
          THEN /\ ReturnFromCall
               /\ UNCHANGED <<analyzed_files, parse_log, dependencies>>
          ELSE /\ analyzed_files' = analyzed_files \cup {file_path}
               /\ parse_log' = Append(parse_log, file_path)
               /\ IF file_path.module \in unparsable
                  THEN /\ ReturnFromCall
                       /\ UNCHANGED dependencies
                  ELSE /\ dependencies' =
                              IF imports = {} THEN dependencies
                              ELSE [m \in DOMAIN dependencies \cup {current_module} |->
                                       Get(dependencies, m) \cup
                                           (IF m = current_module THEN imports ELSE {})]
                       /\ IF deep
                          THEN /\ call_stack' =
                                      [call_stack EXCEPT ![Len(call_stack)] =
                                          [@ EXCEPT !.at = "loop", !.pending = imports]]
                               /\ spc' = spc
                          ELSE ReturnFromCall
    /\ StaticFrame

\* One round of the loop 'for imp in visitor.imports' (a set: any order),
\* or its end.
AnalyzeImport ==
    /\ spc = "running"
    /\ call_stack # <<>>
    /\ Top.at = "loop"
    /\ IF Top.pending = {}
       THEN ReturnFromCall
       ELSE \E imp \in Top.pending :
               LET local_path == resolve_local_import(imp)
                   rest == [call_stack EXCEPT ![Len(call_stack)] =
                               [@ EXCEPT !.pending = @ \ {imp}]]
               IN /\ call_stack' =
                         IF local_path # NoScriptPath /\ local_path \notin analyzed_files
                         THEN Append(rest, Call(local_path, imp))
                         ELSE rest
                  /\ spc' = spc
    /\ UNCHANGED <<analyzed_files, parse_log, dependencies>>
    /\ StaticFrame

StaticInit ==
    /\ SelIdle
    /\ EngIdle
    /\ CmpIdle
    /\ PipeIdle
    /\ AnaIdle
    /\ ProIdle
    /\ ObfIdle
    /\ ScoIdle
    /\ EstIdle
    /\ BcIdle
    /\ spc = "start"
    /\ sources \in Programs
    /\ unparsable \in SUBSET LocalFiles
    /\ script_path \in ScriptPaths
    /\ deep \in BOOLEAN
    /\ analyzed_files = {}
    /\ parse_log = <<>>
    /\ call_stack = <<>>
    /\ dependencies = <<>>

StaticNext == AnalyzeScript \/ AnalyzeFile \/ AnalyzeImport

SpecStatic == StaticInit /\ [][StaticNext]_vars

(***************************************************************************)
(* Claims about the static pass.                                           *)
(***************************************************************************)
\* The local files a deep pass gets to: the script, and every local import
\* of a file that parsed.
RECURSIVE ReachedFiles(_)
ReachedFiles(seen) ==
    LET more == seen \cup {imp \in UNION {sources[f] : f \in seen \ unparsable} :
                              imp \in LocalFiles}
    IN IF more = seen THEN seen ELSE ReachedFiles(more)

\* C30: the static pass parses each source file at most once per run; a file
\* that fails to parse contributes no edges of its own and does not stop
\* the analysis of the other files.
C30_EachFileParsedOnce ==
    /\ \A i, j \in DOMAIN parse_log :
          parse_log[i].module = parse_log[j].module => i = j
    /\ \A f \in unparsable : f \notin DOMAIN dependencies
    /\ (spc = "returned" /\ deep) =>
          \A f \in ReachedFiles({Root}) :
              \E i \in DOMAIN parse_log : parse_log[i].module = f

====
